---- MODULE Spec2Model ----
\* Model of conversion-server/main.py: the in-memory job store `jobs`, the Job
\* Runner run_conversion, the expiry sweeper cleanup_old_jobs (background thread
\* of cleanup_loop and the eager pass inside create_job), the delivery endpoint
\* download_job / iter_file, the subprocess supervisor run_subprocess and the two
\* asyncio semaphores.
\*
\* Threads.  Handlers and run_conversion run on the asyncio event loop: between
\* two awaits they are atomic with respect to each other.  cleanup_old_jobs of
\* cleanup_loop runs in a worker thread (asyncio.to_thread) and iter_file, a
\* synchronous generator, is iterated in a worker thread by StreamingResponse:
\* both interleave with the event loop and with each other at any point.  A job
\* record is a dict object: run_conversion, a sweep and iter_file keep their
\* reference `job` to it after jobs.pop removed the key, so the records (rec)
\* are modelled apart from the keys of the store (jobs).
EXTENDS Integers, FiniteSets, Sequences, TLC

\* ---------------------------------------------------------------- bounds
MaxJobs == 2
MaxDownloads == 2
MaxLookups == 3

\* ------------------------------------------------------- program constants
MAX_METADATA_CONCURRENCY == 2
MAX_CONVERSION_CONCURRENCY == 1

JobIds == 1..MaxJobs
NoJob == 0
Sweepers == {"bg", "eager"}

VARIABLES
    jobs,                   \* keys of the dict `jobs`
    rec,                    \* the record objects, by id (alive after jobs.pop)
    nextId,                 \* ids 1..nextId-1 have been generated by uuid4
    pc,                     \* position of run_conversion(job_id)
    conversion_semaphore,   \* value of the semaphore (free slots)
    holds,                  \* runners inside `async with conversion_semaphore`
    proc,                   \* the external process of each runner
    disk,                   \* the scratch directory of each job and its file
    sw,                     \* the two sweeps: background thread, eager pass
    dlStream,               \* per job: iter_file generators before their finally
    dlPop,                  \* per job: iter_file between rmtree and jobs.pop
    passed,                 \* per job: download requests that passed the checks
    rmBy,                   \* per job: who actually removed the directory
    popBy,                  \* per job: who actually removed the key
    metadata_semaphore,     \* value of the semaphore (free slots)
    mdQueued,               \* get_metadata calls waiting for the semaphore
    mdInside,               \* get_metadata calls inside the semaphore
    cjQuality               \* create_job in its eager sweep: its `quality`, as
                            \* given in the request and as coerced

vars == <<jobs, rec, nextId, pc, conversion_semaphore, holds, proc, disk, sw,
          dlStream, dlPop, passed, rmBy, popBy,
          metadata_semaphore, mdQueued, mdInside, cjQuality>>

jobVars == <<jobs, rec, nextId>>
runVars == <<pc, conversion_semaphore, holds, proc>>
dlVars == <<dlStream, dlPop, passed>>
mdVars == <<metadata_semaphore, mdQueued, mdInside>>

\* ---------------------------------------------------------------- records
\* JobStatus; "absent" is the status of an id no record was created for.
JobStatus == {"pending", "processing", "completed", "failed"}

\* The record create_job builds: the coerced quality, every result field and
\* error None.  `given` is no field of the program's record: it keeps the
\* quality of the request, as `expired` keeps what the clock says of created_at.
NewRecord(given, quality) ==
    [status |-> "pending", given |-> given, quality |-> quality,
     output_dir |-> FALSE, output_path |-> FALSE, meta |-> "none",
     file_size |-> FALSE, error |-> "none", expired |-> FALSE]

\* No record object exists yet for the id.
NoRecord ==
    [status |-> "absent", given |-> "none", quality |-> "none",
     output_dir |-> FALSE, output_path |-> FALSE, meta |-> "none",
     file_size |-> FALSE, error |-> "none", expired |-> FALSE]

\* No create_job call is in its eager sweep.
NoCall == [given |-> "none", quality |-> "none"]

NoDisk == [dir |-> "none", file |-> FALSE]

IdleSweep == [pc |-> "idle", expired |-> {}, cur |-> NoJob, n |-> 0]

Min(S) == CHOOSE x \in S : \A y \in S : x <= y

Init ==
    /\ jobs = {}
    /\ rec = [j \in JobIds |-> NoRecord]
    /\ nextId = 1
    /\ pc = [j \in JobIds |-> "none"]
    /\ conversion_semaphore = MAX_CONVERSION_CONCURRENCY
    /\ holds = {}
    /\ proc = [j \in JobIds |-> "none"]
    /\ disk = [j \in JobIds |-> NoDisk]
    /\ sw = [s \in Sweepers |-> IdleSweep]
    /\ dlStream = [j \in JobIds |-> 0]
    /\ dlPop = [j \in JobIds |-> 0]
    /\ passed = [j \in JobIds |-> 0]
    /\ rmBy = [j \in JobIds |-> <<>>]
    /\ popBy = [j \in JobIds |-> <<>>]
    /\ metadata_semaphore = MAX_METADATA_CONCURRENCY
    /\ mdQueued = 0
    /\ mdInside = 0
    /\ cjQuality = NoCall

\* Positions of run_conversion that are in the middle of a synchronous stretch
\* (no await until the next position): the event loop runs nothing else there,
\* only the worker threads do.
MidSegment == {"alloc", "locate", "record"}

\* The event loop is free: create_job is not in the middle of its synchronous
\* eager sweep and no run_conversion is in the middle of a synchronous stretch.
LoopFree ==
    /\ sw["eager"].pc = "idle"
    /\ \A j \in JobIds : pc[j] \notin MidSegment

\* ------------------------------------------------------------ the clock
\* datetime.now() - created_at exceeds JOB_EXPIRY_MINUTES from now on.  Jobs
\* are created in id order, so they pass the TTL in id order.
Expire(j) ==
    /\ rec[j].status # "absent"
    /\ ~rec[j].expired
    /\ \A k \in JobIds : k < j => rec[k].expired
    /\ rec' = [rec EXCEPT ![j].expired = TRUE]
    /\ UNCHANGED <<jobs, nextId, runVars, disk, sw, dlVars, rmBy, popBy, mdVars, cjQuality>>

\* ------------------------------------------------------------ file system
\* shutil.rmtree(dir, ignore_errors=True): removes the directory and what is
\* in it when it exists, does nothing otherwise.
RmtreeDisk(j) ==
    IF disk[j].dir = "exists"
    THEN [disk EXCEPT ![j] = [dir |-> "removed", file |-> FALSE]]
    ELSE disk

RmtreeBy(j, who) ==
    IF disk[j].dir = "exists" THEN [rmBy EXCEPT ![j] = Append(@, who)] ELSE rmBy

\* ---------------------------------------------------------------- sweeper
\* cleanup_old_jobs, `for job_id, job in jobs.items()` begins: the dict
\* iterator remembers the size of the dict.
SweepBegin(s) ==
    /\ sw[s].pc = "idle"
    /\ sw' = [sw EXCEPT ![s] = [pc |-> "scan", expired |-> {}, cur |-> NoJob,
                                n |-> Cardinality(jobs)]]

\* The ids the scan collects: the jobs older than the TTL.
ExpiredNow == {j \in jobs : rec[j].expired}

\* The scan ends.  A dict whose size changed during the iteration raises
\* RuntimeError: the sweep is over without popping anything.
SweepScan(s) ==
    /\ sw[s].pc = "scan"
    /\ IF Cardinality(jobs) # sw[s].n
       THEN /\ sw' = [sw EXCEPT ![s] = IdleSweep]
            /\ cjQuality' = IF s = "eager" THEN NoCall ELSE cjQuality
       ELSE /\ IF ExpiredNow = {}
               THEN sw' = [sw EXCEPT ![s] = [IdleSweep EXCEPT !.pc =
                               IF s = "eager" THEN "insert" ELSE "idle"]]
               ELSE sw' = [sw EXCEPT ![s] = [pc |-> "pop", expired |-> ExpiredNow,
                                             cur |-> NoJob, n |-> 0]]
            /\ UNCHANGED cjQuality
    /\ UNCHANGED <<jobVars, runVars, disk, dlVars, rmBy, popBy, mdVars>>

\* Where a sweep goes once `for job_id in expired` has nothing left.
SweepAfter(s, left) ==
    IF left # {} THEN "pop" ELSE IF s = "eager" THEN "insert" ELSE "idle"

\* A sweep that uses the record it saw during the scan instead of the result of
\* jobs.pop: it goes on to rmtree also when the key was already gone.
SweepPopKeepsRecord(s) ==
    /\ sw[s].pc = "pop"
    /\ LET j == Min(sw[s].expired)
           left == sw[s].expired \ {j}
       IN /\ jobs' = jobs \ {j}
          /\ popBy' = IF j \in jobs THEN [popBy EXCEPT ![j] = Append(@, s)] ELSE popBy
          /\ sw' = [sw EXCEPT ![s] = [pc |-> "rm", expired |-> left,
                                      cur |-> j, n |-> 0]]
    /\ UNCHANGED <<rec, nextId, runVars, disk, dlVars, rmBy, mdVars, cjQuality>>

\* job = jobs.pop(job_id, None) for the next id of the list `expired`.
SweepPop(s) ==
    /\ sw[s].pc = "pop"
    /\ LET j == Min(sw[s].expired)
           left == sw[s].expired \ {j}
       IN IF j \in jobs
          THEN /\ jobs' = jobs \ {j}
               /\ popBy' = [popBy EXCEPT ![j] = Append(@, s)]
               /\ sw' = [sw EXCEPT ![s] = [pc |-> "rm", expired |-> left,
                                           cur |-> j, n |-> 0]]
          ELSE /\ sw' = [sw EXCEPT ![s] = [pc |-> SweepAfter(s, left),
                                           expired |-> left, cur |-> NoJob, n |-> 0]]
               /\ UNCHANGED <<jobs, popBy>>
    /\ UNCHANGED <<rec, nextId, runVars, disk, dlVars, rmBy, mdVars, cjQuality>>

\* A sweep that marks the record it removed as failed.
SweepRmtreeMarksRecord(s) ==
    /\ sw[s].pc = "rm"
    /\ LET j == sw[s].cur
       IN /\ IF rec[j].output_dir
             THEN disk' = RmtreeDisk(j) /\ rmBy' = RmtreeBy(j, s)
             ELSE UNCHANGED <<disk, rmBy>>
          /\ rec' = [rec EXCEPT ![j].status = "failed"]
          /\ sw' = [sw EXCEPT ![s] = [pc |-> SweepAfter(s, sw[s].expired),
                          expired |-> sw[s].expired, cur |-> NoJob, n |-> 0]]
    /\ UNCHANGED <<jobs, nextId, runVars, dlVars, popBy, mdVars, cjQuality>>

\* if job and job.get('output_dir'): shutil.rmtree(job['output_dir'], ...)
SweepRmtree(s) ==
    /\ sw[s].pc = "rm"
    /\ LET j == sw[s].cur
       IN /\ IF rec[j].output_dir
             THEN disk' = RmtreeDisk(j) /\ rmBy' = RmtreeBy(j, s)
             ELSE UNCHANGED <<disk, rmBy>>
          /\ sw' = [sw EXCEPT ![s] = [pc |-> SweepAfter(s, sw[s].expired),
                          expired |-> sw[s].expired, cur |-> NoJob, n |-> 0]]
    /\ UNCHANGED <<jobVars, runVars, dlVars, popBy, mdVars, cjQuality>>

\* cleanup_loop: one cycle of the background sweep begins (in its thread).
CleanupLoop ==
    /\ SweepBegin("bg")
    /\ UNCHANGED <<jobVars, runVars, disk, dlVars, rmBy, popBy, mdVars, cjQuality>>

Sweep(s) == SweepScan(s) \/ SweepPop(s) \/ SweepRmtree(s)

\* ---------------------------------------------------- is_valid_youtube_url
\* A url is the sequence of its maximal runs of [\w-] characters ("words") and
\* of other characters; Punct are the runs of other characters that occur.
Punct == {"://", ".", "/", "?", "=", "&", "//", "=&"}
IsWord(t) == t \notin Punct

\* YOUTUBE_PATTERNS: each is an optional scheme, an optional "www." where the
\* pattern has one, a literal, and [\w-]+.
YOUTUBE_PATTERNS ==
    << [www |-> TRUE,
        lit |-> <<"youtube", ".", "com", "/", "watch", "?", "v", "=">>],
       [www |-> TRUE,  lit |-> <<"youtu", ".", "be", "/">>],
       [www |-> TRUE,
        lit |-> <<"youtube", ".", "com", "/", "shorts", "/">>],
       [www |-> FALSE,
        lit |-> <<"music", ".", "youtube", ".", "com", "/", "watch", "?", "v",
                  "=">>] >>

\* (https?://)? and (www\.)? at the start of the url: what is left after them.
StripScheme(u) ==
    IF Len(u) >= 2 /\ u[1] \in {"http", "https"} /\ u[2] = "://"
    THEN SubSeq(u, 3, Len(u)) ELSE u

StripWww(u) ==
    IF Len(u) >= 2 /\ u[1] = "www" /\ u[2] = "."
    THEN SubSeq(u, 3, Len(u)) ELSE u

\* re.match(pattern, url): the pattern matches a prefix of the url; [\w-]+
\* takes one word, whatever follows it.
re_match(pattern, url) ==
    LET a == StripScheme(url)
        b == IF pattern.www THEN StripWww(a) ELSE a
        n == Len(pattern.lit)
    IN /\ Len(b) > n
       /\ SubSeq(b, 1, n) = pattern.lit
       /\ IsWord(b[n + 1])

is_valid_youtube_url(url) ==
    \E i \in 1..Len(YOUTUBE_PATTERNS) : re_match(YOUTUBE_PATTERNS[i], url)

\* The urls submitted that match a pattern: watch, short link, shorts with a
\* query after the id, music.
GoodUrls ==
    { <<"https", "://", "www", ".", "youtube", ".", "com", "/", "watch", "?",
        "v", "=", "dQw4w9WgXcQ">>,
      <<"youtu", ".", "be", "/", "dQw4w9WgXcQ">>,
      <<"http", "://", "youtube", ".", "com", "/", "shorts", "/", "abc-1", "?",
        "feature", "=", "share">>,
      <<"music", ".", "youtube", ".", "com", "/", "watch", "?", "v", "=", "abc">> }

\* The urls submitted that match none: another site, no id (twice), another
\* scheme, "www." before music, a video url inside the query of another site,
\* the empty string.
BadUrls ==
    { <<"https", "://", "vimeo", ".", "com", "/", "12345">>,
      <<"https", "://", "www", ".", "youtube", ".", "com", "/", "watch", "?",
        "v", "=&", "t", "=", "1">>,
      <<"https", "://", "youtube", ".", "com", "/", "watch", "?", "v", "=">>,
      <<"ftp", "://", "youtube", ".", "com", "/", "shorts", "/", "abc">>,
      <<"https", "://", "www", ".", "music", ".", "youtube", ".", "com", "/",
        "watch", "?", "v", "=", "abc">>,
      <<"https", "://", "example", ".", "com", "/", "?", "u", "=", "youtu", ".",
        "be", "/", "abc">>,
      <<>> }

Urls == GoodUrls \cup BadUrls

\* ------------------------------------------------------------- create_job
\* valid_qualities, and the quality create_job goes on with.
valid_qualities == {"128", "192", "256", "320"}

\* A create_job that takes the selector as it comes.
QualityAsGiven(quality) == quality

CoerceQuality(quality) ==
    IF quality \notin valid_qualities THEN "128" ELSE quality

\* The quality selectors submitted; DefaultQuality is the one of a request
\* without the parameter.
Selectors == valid_qualities \cup {"64", "best", ""}
DefaultQuality == "128"

\* A create_job that begins its work before it looks at the url.
CreateJobChecksUrlLate(url, quality) ==
    /\ LoopFree
    /\ nextId <= MaxJobs
    /\ cjQuality' = [given |-> quality, quality |-> CoerceQuality(quality)]
    /\ SweepBegin("eager")
    /\ UNCHANGED <<jobVars, runVars, disk, dlVars, rmBy, popBy, mdVars>>

\* POST /jobs.  A url that is not accepted raises HTTPException(400) before
\* anything else; else the quality is coerced and the eager cleanup_old_jobs()
\* begins.
CreateJob(url, quality) ==
    /\ LoopFree
    /\ IF ~is_valid_youtube_url(url)
       THEN UNCHANGED vars
       ELSE /\ nextId <= MaxJobs
            /\ cjQuality' = [given |-> quality,
                             quality |-> CoerceQuality(quality)]
            /\ SweepBegin("eager")
            /\ UNCHANGED <<jobVars, runVars, disk, dlVars, rmBy, popBy, mdVars>>

\* A submission that takes the smallest id that is no key of the store, instead
\* of a fresh one.
CreateJobInsertReusesId ==
    /\ sw["eager"].pc = "insert"
    /\ LET id == Min(JobIds \ jobs)
       IN /\ pc[id] \in {"none", "returned", "crashed"}
          /\ jobs' = jobs \cup {id}
          /\ rec' = [rec EXCEPT ![id] = NewRecord(cjQuality.given, cjQuality.quality)]
          /\ pc' = [pc EXCEPT ![id] = "scheduled"]
    /\ nextId' = nextId + 1
    /\ sw' = [sw EXCEPT !["eager"] = IdleSweep]
    /\ cjQuality' = NoCall
    /\ UNCHANGED <<conversion_semaphore, holds, proc, disk, dlVars, rmBy, popBy,
                   mdVars>>

\* The eager sweep returned: job_id = str(uuid.uuid4()), jobs[job_id] = {...},
\* background_tasks.add_task(run_conversion, ...), the response.
CreateJobInsert ==
    /\ sw["eager"].pc = "insert"
    /\ jobs' = jobs \cup {nextId}
    /\ rec' = [rec EXCEPT ![nextId] = NewRecord(cjQuality.given, cjQuality.quality)]
    /\ pc' = [pc EXCEPT ![nextId] = "scheduled"]
    /\ nextId' = nextId + 1
    /\ sw' = [sw EXCEPT !["eager"] = IdleSweep]
    /\ cjQuality' = NoCall
    /\ UNCHANGED <<conversion_semaphore, holds, proc, disk, dlVars, rmBy, popBy,
                   mdVars>>

\* ----------------------------------------------------- conversion semaphore
\* A semaphore that admits a caller when no slot is left.
CanAcquireOffByOne(value) == value >= 0

\* asyncio.Semaphore.acquire returns at once when the value is positive and
\* suspends the caller otherwise.
CanAcquire(value) == value > 0

\* `async with conversion_semaphore` is left, by return or by exception.
Released(j) == holds \ {j}

SetFailed(r, err) == [r EXCEPT !.status = "failed", !.error = err]

\* --------------------------------------------------------- run_conversion
\* A runner that forgets job['status'] = JobStatus.PROCESSING.
RunStartKeepsPending(j) ==
    /\ LoopFree
    /\ pc[j] = "scheduled"
    /\ pc' = [pc EXCEPT ![j] = IF j \in jobs THEN "alloc" ELSE "returned"]
    /\ UNCHANGED <<jobVars, conversion_semaphore, holds, proc, disk, sw,
                   dlVars, rmBy, popBy, mdVars, cjQuality>>

\* job = jobs.get(job_id); if not job: return; job['status'] = PROCESSING.
RunStart(j) ==
    /\ LoopFree
    /\ pc[j] = "scheduled"
    /\ IF j \in jobs
       THEN /\ rec' = [rec EXCEPT ![j].status = "processing"]
            /\ pc' = [pc EXCEPT ![j] = "alloc"]
       ELSE /\ pc' = [pc EXCEPT ![j] = "returned"]
            /\ UNCHANGED rec
    /\ UNCHANGED <<jobs, nextId, conversion_semaphore, holds, proc, disk, sw,
                   dlVars, rmBy, popBy, mdVars, cjQuality>>

\* tmpdir = tempfile.mkdtemp(dir=JOBS_DIR); job['output_dir'] = tmpdir; the
\* command is built and `async with conversion_semaphore` is entered when a
\* slot is free.  mkdtemp is outside the try: when it raises (ok = FALSE) the
\* exception leaves run_conversion.
RunAlloc(j, ok) ==
    /\ pc[j] = "alloc"
    /\ IF ok
       THEN /\ disk' = [disk EXCEPT ![j] = [dir |-> "exists", file |-> FALSE]]
            /\ rec' = [rec EXCEPT ![j].output_dir = TRUE]
            /\ IF CanAcquire(conversion_semaphore)
               THEN /\ conversion_semaphore' = conversion_semaphore - 1
                    /\ holds' = holds \cup {j}
                    /\ pc' = [pc EXCEPT ![j] = "launch"]
               ELSE /\ pc' = [pc EXCEPT ![j] = "gate"]
                    /\ UNCHANGED <<conversion_semaphore, holds>>
       ELSE /\ pc' = [pc EXCEPT ![j] = "crashed"]
            /\ UNCHANGED <<rec, disk, conversion_semaphore, holds>>
    /\ UNCHANGED <<jobs, nextId, proc, sw, dlVars, rmBy, popBy, mdVars, cjQuality>>

\* A runner suspended in conversion_semaphore.acquire() is woken up.
RunAcquire(j) ==
    /\ LoopFree
    /\ pc[j] = "gate"
    /\ CanAcquire(conversion_semaphore)
    /\ conversion_semaphore' = conversion_semaphore - 1
    /\ holds' = holds \cup {j}
    /\ pc' = [pc EXCEPT ![j] = "launch"]
    /\ UNCHANGED <<jobVars, proc, disk, sw, dlVars, rmBy, popBy, mdVars, cjQuality>>

\* run_subprocess: asyncio.create_subprocess_exec.  When it raises (the tool
\* cannot be launched, ok = FALSE) the exception leaves the `async with`, which
\* releases the slot, and reaches `except Exception`.
RunLaunch(j, ok) ==
    /\ LoopFree
    /\ pc[j] = "launch"
    /\ IF ok
       THEN /\ proc' = [proc EXCEPT ![j] = "running"]
            /\ pc' = [pc EXCEPT ![j] = "wait"]
            /\ UNCHANGED <<rec, conversion_semaphore, holds>>
       ELSE /\ conversion_semaphore' = conversion_semaphore + 1
            /\ holds' = Released(j)
            /\ rec' = [rec EXCEPT ![j] = SetFailed(@, "exception")]
            /\ pc' = [pc EXCEPT ![j] = "returned"]
            /\ UNCHANGED proc
    /\ UNCHANGED <<jobs, nextId, disk, sw, dlVars, rmBy, popBy, mdVars, cjQuality>>

\* What the last line of the captured stdout is: a JSON object, not JSON, or
\* JSON that is not an object.
StdoutKinds == {"object", "malformed", "nonobject"}

\* The record after lines 331-347, for exit status rc and the stdout kind.
\* json.loads raising JSONDecodeError gives the placeholders; info.get on a
\* value that is no dict raises AttributeError, caught by `except Exception`.
AfterExit(r, rc, kind) ==
    IF rc # 0 THEN SetFailed(r, "tool")
    ELSE IF kind = "object" THEN [r EXCEPT !.meta = "parsed"]
    ELSE IF kind = "malformed" THEN [r EXCEPT !.meta = "placeholder"]
    ELSE SetFailed(r, "exception")

\* The process exits by itself within the deadline with status rc, having
\* written its output file or not (it can write it only into an existing
\* directory); run_subprocess returns, the `async with` is left and the exit
\* status and the metadata are handled.
RunExit(j, rc, wrote, kind) ==
    /\ LoopFree
    /\ pc[j] = "wait"
    /\ proc[j] = "running"
    /\ proc' = [proc EXCEPT ![j] = "exited"]
    /\ disk' = [disk EXCEPT ![j].file = wrote /\ rc = 0 /\ disk[j].dir = "exists"]
    /\ conversion_semaphore' = conversion_semaphore + 1
    /\ holds' = Released(j)
    /\ rec' = [rec EXCEPT ![j] = AfterExit(@, rc, kind)]
    /\ pc' = [pc EXCEPT ![j] =
                IF AfterExit(rec[j], rc, kind).status = "failed"
                THEN "returned" ELSE "locate"]
    /\ UNCHANGED <<jobs, nextId, sw, dlVars, rmBy, popBy, mdVars, cjQuality>>

\* A timeout handler that re-raises without process.kill().
NotKilled(p) == p

\* run_subprocess, `except asyncio.TimeoutError`: the deadline of wait_for
\* passed with the process still running; process.kill().
Killed(p) == "killed"

RunTimeout(j) ==
    /\ LoopFree
    /\ pc[j] = "wait"
    /\ proc[j] = "running"
    /\ proc' = [proc EXCEPT ![j] = Killed(@)]
    /\ pc' = [pc EXCEPT ![j] = "reap"]
    /\ UNCHANGED <<jobVars, conversion_semaphore, holds, disk, sw, dlVars, rmBy,
                   popBy, mdVars, cjQuality>>

\* A timeout branch that returns without giving the slot back.
RunTimedOutKeepsSlot(j) ==
    /\ LoopFree
    /\ pc[j] = "reap"
    /\ rec' = [rec EXCEPT ![j] = SetFailed(@, "timeout")]
    /\ pc' = [pc EXCEPT ![j] = "returned"]
    /\ UNCHANGED <<jobs, nextId, conversion_semaphore, holds, proc, disk, sw,
                   dlVars, rmBy, popBy, mdVars, cjQuality>>

\* await process.wait() returned and TimeoutError is raised again; in
\* run_conversion: status FAILED, error "Conversion timed out", return (which
\* leaves the `async with`).
RunTimedOut(j) ==
    /\ LoopFree
    /\ pc[j] = "reap"
    /\ rec' = [rec EXCEPT ![j] = SetFailed(@, "timeout")]
    /\ conversion_semaphore' = conversion_semaphore + 1
    /\ holds' = Released(j)
    /\ pc' = [pc EXCEPT ![j] = "returned"]
    /\ UNCHANGED <<jobs, nextId, proc, disk, sw, dlVars, rmBy, popBy, mdVars, cjQuality>>

\* if not os.path.exists(output_path): look for an .mp3 in tmpdir, else
\* FAILED "No output file produced".  os.listdir of a directory that is gone
\* raises FileNotFoundError, caught by `except Exception`.
RunLocate(j) ==
    /\ pc[j] = "locate"
    /\ IF disk[j].file
       THEN /\ pc' = [pc EXCEPT ![j] = "record"]
            /\ UNCHANGED rec
       ELSE /\ rec' = [rec EXCEPT ![j] = SetFailed(@,
                        IF disk[j].dir = "exists" THEN "no_output" ELSE "exception")]
            /\ pc' = [pc EXCEPT ![j] = "returned"]
    /\ UNCHANGED <<jobs, nextId, conversion_semaphore, holds, proc, disk, sw,
                   dlVars, rmBy, popBy, mdVars, cjQuality>>

\* job['output_path'] = output_path; job['file_size'] = os.path.getsize(...);
\* job['status'] = COMPLETED.  getsize of a file that is gone raises OSError,
\* caught by `except Exception`.
RunRecord(j) ==
    /\ pc[j] = "record"
    /\ IF disk[j].file
       THEN rec' = [rec EXCEPT ![j].output_path = TRUE, ![j].file_size = TRUE,
                               ![j].status = "completed"]
       ELSE rec' = [rec EXCEPT ![j] = SetFailed([@ EXCEPT !.output_path = TRUE],
                                                "exception")]
    /\ pc' = [pc EXCEPT ![j] = "returned"]
    /\ UNCHANGED <<jobs, nextId, conversion_semaphore, holds, proc, disk, sw,
                   dlVars, rmBy, popBy, mdVars, cjQuality>>

RunConversion(j) ==
    \/ RunStart(j)
    \/ \E ok \in BOOLEAN : RunAlloc(j, ok)
    \/ RunAcquire(j)
    \/ \E ok \in BOOLEAN : RunLaunch(j, ok)
    \/ \E rc \in {0, 1}, wrote \in BOOLEAN, kind \in StdoutKinds :
          RunExit(j, rc, wrote, kind)
    \/ RunTimeout(j)
    \/ RunTimedOut(j)
    \/ RunLocate(j)
    \/ RunRecord(j)

\* ------------------------------------------------------------ download_job
\* The response of GET /jobs/{job_id}/download: 404 for an unknown id, 400 for
\* a job that is not COMPLETED, 404 when the output file is missing, else 200.
DownloadReply(j) ==
    IF j \notin jobs THEN 404
    ELSE IF rec[j].status # "completed" THEN 400
    ELSE IF ~rec[j].output_path \/ ~disk[j].file THEN 404
    ELSE 200

InFlight(f) == LET Sum[n \in 0..MaxJobs] == IF n = 0 THEN 0 ELSE Sum[n - 1] + f[n]
               IN Sum[MaxJobs]

\* The detail of the 400: f"Job not ready. Status: {job['status']}".
DownloadDetail(j) == IF DownloadReply(j) = 400 THEN rec[j].status ELSE "none"

\* A download_job that takes the job out of the store before its checks.
DownloadJobPopsFirst(j) ==
    /\ LoopFree
    /\ jobs' = jobs \ {j}
    /\ IF DownloadReply(j) = 200
       THEN /\ InFlight(dlStream) + InFlight(dlPop) < MaxDownloads
            /\ dlStream' = [dlStream EXCEPT ![j] = @ + 1]
            /\ passed' = [passed EXCEPT ![j] = @ + 1]
            /\ UNCHANGED dlPop
       ELSE UNCHANGED dlVars
    /\ UNCHANGED <<rec, nextId, runVars, disk, sw, rmBy, popBy, mdVars, cjQuality>>

\* download_job(job_id): the checks, then StreamingResponse(iter_file(), ...).
\* A request that fails a check raises HTTPException and changes nothing.
DownloadJob(j) ==
    /\ LoopFree
    /\ IF DownloadReply(j) = 200
       THEN /\ InFlight(dlStream) + InFlight(dlPop) < MaxDownloads
            /\ dlStream' = [dlStream EXCEPT ![j] = @ + 1]
            /\ passed' = [passed EXCEPT ![j] = @ + 1]
            /\ UNCHANGED dlPop
       ELSE UNCHANGED dlVars
    /\ UNCHANGED <<jobVars, runVars, disk, sw, rmBy, popBy, mdVars, cjQuality>>

\* iter_file (in a worker thread): the file is read to its end, or open()
\* raises because the file is gone; either way the finally clause begins with
\* if job.get('output_dir'): shutil.rmtree(job['output_dir'], ...).
IterFileRmtree(j) ==
    /\ dlStream[j] > 0
    /\ IF rec[j].output_dir
       THEN disk' = RmtreeDisk(j) /\ rmBy' = RmtreeBy(j, "download")
       ELSE UNCHANGED <<disk, rmBy>>
    /\ dlStream' = [dlStream EXCEPT ![j] = @ - 1]
    /\ dlPop' = [dlPop EXCEPT ![j] = @ + 1]
    /\ UNCHANGED <<jobVars, runVars, sw, passed, popBy, mdVars, cjQuality>>

\* iter_file, end of the finally clause: jobs.pop(job_id, None).
IterFilePop(j) ==
    /\ dlPop[j] > 0
    /\ IF j \in jobs
       THEN jobs' = jobs \ {j} /\ popBy' = [popBy EXCEPT ![j] = Append(@, "download")]
       ELSE UNCHANGED <<jobs, popBy>>
    /\ dlPop' = [dlPop EXCEPT ![j] = @ - 1]
    /\ UNCHANGED <<rec, nextId, runVars, disk, sw, dlStream, passed, rmBy, mdVars, cjQuality>>

\* ---------------------------------------------------------- get_job_status
\* The response of GET /jobs/{job_id}: 404 for an id that is no key of jobs.
StatusReply(j) == IF j \notin jobs THEN 404 ELSE 200

\* get_job_status(job_id): jobs.get and reads of the record, no await and no
\* semaphore; nothing is written.
GetJobStatus(j) ==
    /\ LoopFree
    /\ UNCHANGED vars

\* ------------------------------------------------------------------ health
\* health(): reads of the file system and of jobs.values(), no await and no
\* semaphore; nothing is written.
Health ==
    /\ LoopFree
    /\ UNCHANGED vars

\* ------------------------------------------------------------ get_metadata
\* A get_metadata that enters the conversion semaphore.
GetMetadataBehindConversions ==
    /\ LoopFree
    /\ mdQueued + mdInside < MaxLookups
    /\ IF CanAcquire(conversion_semaphore)
       THEN /\ conversion_semaphore' = conversion_semaphore - 1
            /\ mdInside' = mdInside + 1
            /\ UNCHANGED mdQueued
       ELSE /\ mdQueued' = mdQueued + 1
            /\ UNCHANGED <<conversion_semaphore, mdInside>>
    /\ UNCHANGED <<jobVars, pc, holds, proc, disk, sw, dlVars, rmBy, popBy,
                   metadata_semaphore, cjQuality>>

\* GET /metadata with an accepted url: `async with metadata_semaphore` is
\* entered when a slot is free, else the call waits for one.
GetMetadata ==
    /\ LoopFree
    /\ mdQueued + mdInside < MaxLookups
    /\ IF CanAcquire(metadata_semaphore)
       THEN /\ metadata_semaphore' = metadata_semaphore - 1
            /\ mdInside' = mdInside + 1
            /\ UNCHANGED mdQueued
       ELSE /\ mdQueued' = mdQueued + 1
            /\ UNCHANGED <<metadata_semaphore, mdInside>>
    /\ UNCHANGED <<jobVars, runVars, disk, sw, dlVars, rmBy, popBy, cjQuality>>

\* A get_metadata call suspended in metadata_semaphore.acquire() is woken up.
MetadataAcquire ==
    /\ LoopFree
    /\ mdQueued > 0
    /\ CanAcquire(metadata_semaphore)
    /\ metadata_semaphore' = metadata_semaphore - 1
    /\ mdQueued' = mdQueued - 1
    /\ mdInside' = mdInside + 1
    /\ UNCHANGED <<jobVars, runVars, disk, sw, dlVars, rmBy, popBy, cjQuality>>

\* run_subprocess returned or raised (exit status, timeout, launch failure):
\* the `async with metadata_semaphore` is left.
MetadataReturn ==
    /\ LoopFree
    /\ mdInside > 0
    /\ metadata_semaphore' = metadata_semaphore + 1
    /\ mdInside' = mdInside - 1
    /\ UNCHANGED <<jobVars, runVars, disk, sw, dlVars, rmBy, popBy, mdQueued,
                   cjQuality>>

\* The job service: submission, runners, sweeps, clock, downloads.  The
\* quality is left to its default: it decides nothing but the stored value.
Next ==
    \/ CleanupLoop
    \/ \E s \in Sweepers : Sweep(s)
    \/ \E url \in Urls : CreateJob(url, DefaultQuality)
    \/ CreateJobInsert
    \/ \E j \in JobIds : Expire(j)
    \/ \E j \in JobIds : RunConversion(j)
    \/ \E j \in JobIds : DownloadJob(j) \/ IterFileRmtree(j) \/ IterFilePop(j)
    \/ \E j \in JobIds : GetJobStatus(j)
    \/ Health

Spec == Init /\ [][Next]_vars

\* Submissions with every quality selector, and their runners.
SubmitNext ==
    \/ \E url \in Urls, quality \in Selectors : CreateJob(url, quality)
    \/ SweepScan("eager")
    \/ CreateJobInsert
    \/ \E j \in JobIds : RunConversion(j)

SubmitSpec == Init /\ [][SubmitNext]_vars

\* The job service together with the metadata lookups.
NextAll ==
    \/ Next
    \/ GetMetadata
    \/ MetadataAcquire
    \/ MetadataReturn

SpecAll == Init /\ [][NextAll]_vars

\* The scheduling the runtime guarantees: the event loop runs every ready
\* coroutine, the worker threads run, the clock advances, and a process that
\* is waited for exits or hits its deadline.
Fairness ==
    /\ WF_vars(CleanupLoop)
    /\ \A s \in Sweepers : WF_vars(Sweep(s))
    /\ WF_vars(CreateJobInsert)
    /\ \A j \in JobIds : WF_vars(Expire(j))
    /\ \A j \in JobIds : WF_vars(RunConversion(j))
    /\ \A j \in JobIds : WF_vars(IterFileRmtree(j) \/ IterFilePop(j))

FairSpec == Spec /\ Fairness
\* ------------------------------------------------------------------ types
TypeOK ==
    /\ jobs \subseteq JobIds
    /\ \A j \in JobIds :
          /\ rec[j].status \in JobStatus \cup {"absent"}
          /\ j \in jobs => rec[j].status \in JobStatus
          /\ rec[j].error \in {"none", "timeout", "tool", "no_output", "exception"}
          /\ rec[j].meta \in {"none", "parsed", "placeholder"}
          /\ disk[j].dir \in {"none", "exists", "removed"}
          /\ disk[j].file => disk[j].dir = "exists"
          /\ proc[j] \in {"none", "running", "exited", "killed"}
          /\ pc[j] \in {"none", "scheduled", "alloc", "gate", "launch", "wait",
                        "reap", "locate", "record", "returned", "crashed"}
          /\ dlStream[j] \in 0..MaxDownloads /\ dlPop[j] \in 0..MaxDownloads
    /\ nextId \in 1..(MaxJobs + 1)
    /\ conversion_semaphore \in 0..MAX_CONVERSION_CONCURRENCY
    /\ metadata_semaphore \in 0..MAX_METADATA_CONCURRENCY
    /\ mdQueued + mdInside <= MaxLookups
    /\ cjQuality.quality \in valid_qualities \cup {"none"}
    /\ cjQuality.given \in Selectors \cup {"none"}
    /\ \A j \in JobIds : rec[j].quality \in valid_qualities \cup {"none"}

\* ================================================================ claims

\* ---- C1
\* C1 as stated: whenever the directory of a job and its record have both been
\* removed, one and the same party (the background sweep, the eager sweep or
\* the download) removed both, the cleanup of every other party being a no-op.
C1_OnePartyRemovesBoth ==
    \A j \in JobIds :
        (rmBy[j] # <<>> /\ popBy[j] # <<>>) => rmBy[j] = popBy[j]

\* C1 as amended: the directory of a job is actually removed at most once and
\* its key is actually removed at most once; both are removed by the same
\* party, except that a sweep may remove the key of a job whose directory the
\* cleanup of a download removes.
C1_RemovedOnce ==
    \A j \in JobIds :
        /\ Len(rmBy[j]) <= 1
        /\ Len(popBy[j]) <= 1
        /\ (rmBy[j] # <<>> /\ popBy[j] # <<>>) =>
               \/ rmBy[j] = popBy[j]
               \/ rmBy[j] = <<"download">> /\ popBy[j][1] \in Sweepers

\* A download raced a sweep of the same job: the sweep removed key and
\* directory, the cleanup of the download found nothing left to do.
C1_Witness ==
    \E j \in JobIds :
        /\ passed[j] > 0 /\ dlStream[j] = 0 /\ dlPop[j] = 0
        /\ rmBy[j] = <<"bg">> /\ popBy[j] = <<"bg">>

\* ---- C2
\* A directory on disk has someone left to remove it.
CleanupPending(j) ==
    \/ j \in jobs
    \/ dlStream[j] > 0
    \/ \E s \in Sweepers : sw[s].pc = "rm" /\ sw[s].cur = j

\* C2 as stated (checked under FairSpec): every output_dir that exists is
\* eventually removed.
C2_DirEventuallyRemoved ==
    \A j \in JobIds : (disk[j].dir = "exists") ~> (disk[j].dir = "removed")

\* C2, the state the claim excludes: no directory is on disk whose record has
\* left the store with no cleanup of it under way.
C2_NoOrphanDir ==
    \A j \in JobIds : disk[j].dir = "exists" => CleanupPending(j)

\* ---- C3
StatusEdges ==
    {<<"absent", "pending">>, <<"pending", "processing">>,
     <<"processing", "completed">>, <<"processing", "failed">>}

\* C3: every change of the status of a job, in the store or removed from it,
\* is one of Pending (at creation), Pending -> Processing, Processing ->
\* Completed, Processing -> Failed; so a terminal status never changes.
C3_StatusForward ==
    [][\A j \in JobIds :
          rec'[j].status # rec[j].status =>
              <<rec[j].status, rec'[j].status>> \in StatusEdges]_vars

\* A job failed through the catch-all handler after its record was swept.
C3_Witness ==
    \E j \in JobIds :
        rec[j].status = "failed" /\ rec[j].error = "exception" /\ j \notin jobs

\* ---- C4
HasResult(r) == r.output_path \/ r.file_size \/ r.meta # "none"
FullResult(r) == r.output_path /\ r.file_size /\ r.meta # "none"
HasError(r) == r.error # "none"

\* C4 as stated: result and error are never both populated; a Completed job
\* has the result and no error, a Failed job has the error and no result
\* field.
C4_ResultXorError ==
    \A j \in JobIds :
        /\ ~(HasResult(rec[j]) /\ HasError(rec[j]))
        /\ rec[j].status = "completed" => FullResult(rec[j]) /\ ~HasError(rec[j])
        /\ rec[j].status = "failed" => HasError(rec[j]) /\ ~HasResult(rec[j])
\* ---- C5
\* The runners inside `async with conversion_semaphore`, by position.
InsideGate == {j \in JobIds : pc[j] \in {"launch", "wait", "reap"}}

\* C5 (checked under SpecAll): at most MAX_CONVERSION_CONCURRENCY runners are
\* inside the conversion-gated section and at most MAX_METADATA_CONCURRENCY
\* lookups inside the metadata-gated one.
C5_GateBound ==
    /\ Cardinality(InsideGate) <= MAX_CONVERSION_CONCURRENCY
    /\ mdInside <= MAX_METADATA_CONCURRENCY

\* Both gates are full with callers waiting behind each.
C5_Witness ==
    /\ Cardinality(InsideGate) = MAX_CONVERSION_CONCURRENCY
    /\ \E j \in JobIds : pc[j] = "gate"
    /\ mdInside = MAX_METADATA_CONCURRENCY
    /\ mdQueued > 0

\* ---- C6
\* The jobs a status poll reports as Processing.
Processing == {j \in jobs : rec[j].status = "processing"}

C7_SlotsBalanced ==
    /\ conversion_semaphore + Cardinality(InsideGate) = MAX_CONVERSION_CONCURRENCY
    /\ holds = InsideGate
    /\ \A j \in JobIds : pc[j] \in {"returned", "crashed"} => j \notin holds
    /\ (\E j \in JobIds : pc[j] = "gate") /\ InsideGate = {} =>
           CanAcquire(conversion_semaphore)

\* A runner ended by timeout and the slot is free for the runner that waits.
C7_Witness ==
    \E j, k \in JobIds :
        /\ pc[j] = "returned" /\ rec[j].error = "timeout"
        /\ pc[k] = "gate" /\ conversion_semaphore = MAX_CONVERSION_CONCURRENCY

\* ---- C8
\* C8: an id whose key was removed from the store is no key of it, and a
\* status poll and a download request for it answer 404.
C8_RemovedStaysGone ==
    \A j \in JobIds :
        popBy[j] # <<>> =>
            j \notin jobs /\ StatusReply(j) = 404 /\ DownloadReply(j) = 404

\* The runner of a removed job went on and wrote the result.
C8_Witness ==
    \E j \in JobIds : popBy[j] # <<>> /\ rec[j].status = "completed"

\* ---- C9
\* C9 as stated: at most one download request per job passes the checks of
\* download_job and streams.
C9_SingleUse == \A j \in JobIds : passed[j] <= 1

\* ---- C10
\* The runner reported the timeout of its process.
TimedOut(j) == rec[j].error = "timeout"

\* C10, in every state: past the deadline (the runner waits for the killed
\* process or has reported the timeout) the process is not running; a
\* timed-out job is Failed, holds no slot and its process is not started again.
C10_TimeoutSafe ==
    \A j \in JobIds :
        /\ (pc[j] = "reap" \/ TimedOut(j)) => proc[j] = "killed"
        /\ TimedOut(j) => rec[j].status = "failed" /\ j \notin holds
                           /\ pc[j] = "returned"

\* C10 (checked under FairSpec): C10_TimeoutSafe always holds, and a runner
\* whose process was killed at the deadline reaches Failed with the timeout
\* diagnostic and its slot given back.
C10_Timeout ==
    /\ []C10_TimeoutSafe
    /\ \A j \in JobIds :
           (pc[j] = "reap") ~>
               (TimedOut(j) /\ rec[j].status = "failed" /\ j \notin holds)

\* A process was killed at its deadline and the job is Failed for it.
C10_Witness ==
    \E j \in JobIds : TimedOut(j) /\ proc[j] = "killed" /\ pc[j] = "returned"

\* ------------------------------------------------------------------- C11
\* C11: whenever the external process exits with status 0 and its output file
\* is present in output_dir, the job is not moved to Failed, whatever the last
\* line of the captured stdout is (absent, not parseable, or parseable but no
\* object): placeholders are substituted and the job goes on to Completed.
C11_MetadataNeverFails ==
    [][\A j \in JobIds :
          (pc[j] = "wait" /\ proc'[j] = "exited" /\ disk'[j].file)
              => /\ rec'[j].status # "failed"
                 /\ rec'[j].meta \in {"parsed", "placeholder"}]_vars

\* ------------------------------------------------------------------- C12
\* A runner that got past the lookup of its job (line 296, status Processing).
Started(j) == pc[j] \notin {"none", "scheduled"} /\ rec[j].status # "pending"

\* C12: under fairness every job whose runner has started eventually reaches
\* Completed or Failed; no failure during the run (allocating output_dir,
\* launching the process) leaves it Pending or Processing forever.
C12_RunnerTerminates ==
    \A j \in JobIds : Started(j) ~> (rec[j].status \in {"completed", "failed"})

\* ------------------------------------------------------------------- C13
\* C13: a submission whose url matches no accepted shape is rejected before
\* any record is created: the step of such a create_job call leaves the keys
\* of the store, every record, the id counter, the scheduled runners, the
\* directories and both sweeps as they were (no eager sweep is begun either).
C13_RejectedBeforeInsert ==
    [][\A url \in BadUrls :
          CreateJob(url, DefaultQuality)
              => UNCHANGED <<jobs, rec, nextId, pc, disk, sw, cjQuality>>]_vars

\* A rejected submission is taken with jobs in the store, one of them waiting
\* for its runner and one expired (an eager sweep would remove it).
C13_Witness ==
    /\ ENABLED (\E url \in BadUrls : CreateJob(url, DefaultQuality))
    /\ nextId <= MaxJobs
    /\ \E j \in jobs : pc[j] = "scheduled"
    /\ \E j \in jobs : rec[j].expired

\* ------------------------------------------------------------------- C14
\* A download request for j that the claim says must fail: j is no key of the
\* store, or its job is Pending, Processing or Failed.
NotDownloadable(j) ==
    j \notin jobs \/ rec[j].status \in {"pending", "processing", "failed"}

\* C14: a download request for an unknown id is answered 404 and one for a job
\* that is Pending, Processing or Failed is answered 400 with that status in
\* the detail; the step of such a request streams nothing and leaves the store,
\* every record and every directory as they were.
C14_FailedDownloadChangesNothing ==
    /\ [](\A j \in JobIds :
            /\ j \notin jobs => DownloadReply(j) = 404
            /\ (j \in jobs /\ rec[j].status \in {"pending", "processing", "failed"})
                  => DownloadReply(j) = 400 /\ DownloadDetail(j) = rec[j].status)
    /\ [][\A j \in JobIds :
            (NotDownloadable(j) /\ DownloadJob(j))
                => UNCHANGED <<jobs, rec, disk, dlVars, rmBy, popBy>>]_vars

\* A download request is taken for a job that is Processing with its directory
\* allocated, while another id is unknown.
C14_Witness ==
    /\ \E j \in jobs : /\ rec[j].status = "processing"
                       /\ disk[j].dir = "exists"
                       /\ ENABLED DownloadJob(j)
    /\ \E j \in JobIds : j \notin jobs /\ ENABLED DownloadJob(j)

\* ------------------------------------------------------------------- C15
\* C15: every create_job call with an accepted url ends by inserting one new
\* Pending record under the fresh id and never with an error: a call that is
\* in its eager sweep only leaves it through the insert, also while the
\* background sweep changes the store.
C15_SubmissionNeverErrors ==
    [][(sw["eager"].pc # "idle" /\ sw'["eager"].pc = "idle")
          => /\ nextId \notin jobs
             /\ jobs' = jobs \cup {nextId}
             /\ rec'[nextId].status = "pending"
             /\ pc'[nextId] = "scheduled"
             /\ nextId' = nextId + 1]_vars

\* ------------------------------------------------------------------- C16
\* Every conversion slot is held and a further runner waits for one.
GateFull ==
    /\ conversion_semaphore = 0
    /\ \E j \in JobIds : pc[j] = "gate"

\* C16: no request of another type waits behind the conversion semaphore.  A
\* metadata lookup can be taken whenever the event loop is free, also with the
\* conversion semaphore full and runners waiting, and it enters its own
\* semaphore at once when fewer than MAX_METADATA_CONCURRENCY lookups are
\* inside and none is queued; get_job_status and health leave both semaphores
\* and their holders as they were.
C16_NotBehindConversionGate ==
    /\ [](LoopFree /\ mdQueued + mdInside < MaxLookups => ENABLED GetMetadata)
    /\ [][/\ (GetMetadata /\ mdInside < MAX_METADATA_CONCURRENCY /\ mdQueued = 0)
                => mdInside' = mdInside + 1 /\ mdQueued' = 0
          /\ \A j \in JobIds :
                (GetJobStatus(j) \/ Health)
                    => UNCHANGED <<conversion_semaphore, metadata_semaphore,
                                   holds, mdQueued, mdInside>>]_vars

\* The conversion semaphore is full with a runner waiting, and a lookup is
\* inside the metadata semaphore with room for another.
C16_Witness ==
    /\ GateFull
    /\ LoopFree
    /\ mdInside = 1
    /\ mdQueued = 0

\* ------------------------------------------------------------------- C17
\* C17: the quality stored on a job (the one its runner is called with) is the
\* selector of the request when that is 128, 192, 256 or 320, and 128 for every
\* other selector; a submission is taken with every selector alike.
C17_QualityCoerced ==
    /\ \A j \in JobIds :
          rec[j].status # "absent" =>
             /\ rec[j].given \in {"128", "192", "256", "320"}
                   => rec[j].quality = rec[j].given
             /\ rec[j].given \notin {"128", "192", "256", "320"}
                   => rec[j].quality = "128"
    /\ \A quality \in Selectors :
          ENABLED (\E url \in GoodUrls : CreateJob(url, quality))
              <=> ENABLED (\E url \in GoodUrls : CreateJob(url, "128"))

\* A job submitted with a selector outside the enumeration and one submitted
\* with 320, both handed to their runners.
C17_Witness ==
    \E j, k \in jobs :
       /\ rec[j].given = "best" /\ rec[j].quality = "128"
       /\ rec[k].given = "320" /\ rec[k].quality = "320"
       /\ pc[j] # "scheduled" /\ pc[k] # "scheduled"

\* ------------------------------------------------------------------- C18
\* What a runner writes on a record: status, the result fields and error.
RunnerFields(r) ==
    <<r.status, r.output_dir, r.output_path, r.meta, r.file_size, r.error>>

\* C18: after its creation, status, result and error of a job are written by
\* the job's own runner only: every step that changes them on the record of j
\* is a step of run_conversion(j); sweeps, downloads, get_job_status and health
\* change them on no record, and a runner on no record but its own.
C18_OnlyOwnRunnerWrites ==
    [][\A j \in JobIds :
          (rec[j].status # "absent" /\ RunnerFields(rec'[j]) # RunnerFields(rec[j]))
              => RunConversion(j)]_vars

\* A job that its runner finished was popped by a sweep and its directory
\* removed, while another job is being downloaded.
C18_Witness ==
    \E j, k \in JobIds :
       /\ j # k
       /\ rec[j].status \in {"completed", "failed"}
       /\ popBy[j] # <<>> /\ rmBy[j] # <<>>
       /\ rec[k].status = "completed" /\ passed[k] > 0

\* ------------------------------------------------------------------- C19
\* C19: a sweep cycle is not cut short by the store being modified while it
\* scans: the scan of every cycle that began on a store with jobs ends with
\* the list of all jobs older than the TTL, and of those only, which the cycle
\* then removes.
C19_CycleNotCutShort ==
    [][\A s \in Sweepers :
          (sw[s].pc = "scan" /\ sw[s].n > 0 /\ sw'[s].pc # "scan")
              => /\ sw'[s].expired = ExpiredNow
                 /\ ExpiredNow # {} => sw'[s].pc = "pop"]_vars

\* ------------------------------------------------------------------- C20
\* The runner of j is waiting for the conversion semaphore or for its process.
RunnerBusy(j) ==
    rec[j].status = "processing" /\ pc[j] \in {"gate", "launch", "wait", "reap"}

\* C20: a job is destroyed only after its runner has finished: no step removes
\* the record of a job from the store or deletes its output_dir while the job
\* is Processing, its runner waiting for the gate or for the process.
C20_NotDestroyedWhileProcessing ==
    [][\A j \in JobIds :
          RunnerBusy(j) =>
             /\ j \in jobs => j \in jobs'
             /\ disk[j].dir = "exists" => disk'[j].dir = "exists"]_vars

====
